---- MODULE Spec2Model ----
(***************************************************************************)
(* hpquiz backend: the Data Access Layer (backend/db.py, class Database)   *)
(* and the HTTP handlers that use it (backend/app.py).                     *)
(*                                                                         *)
(* The document store is a map from collection name to the sequence of     *)
(* its documents in insertion order.  A DAL method is one action: it runs  *)
(* its operation on the transaction's working copy of the store and then   *)
(* leaves the transaction and the session as the two `with` blocks of      *)
(* execute_with_session do.  Every action records the call it made in the  *)
(* history variable `last`: its arguments, every execute_with_session call *)
(* it issued, the ordered trace of driver events and its result.           *)
(***************************************************************************)
EXTENDS Integers, Sequences, FiniteSets, TLC

\* Bounds of the model.
MaxDocs == 2      \* documents a collection holds at most
MaxBatch == 2     \* documents in one insert_many / create_question batch

Indexes == {0, 1}                  \* values of Question.index

VARIABLES store, nextOid, conn, module, last

vars == <<store, nextOid, conn, module, last>>

----------------------------------------------------------------------------
(* Values.  Every Python/BSON value is a tagged record, so that a string   *)
(* and an ObjectId with the same text are different values, as they are    *)
(* for the store's equality match.                                         *)

Val(t, s, n) == [t |-> t, s |-> s, n |-> n]
Missing == Val("missing", "", 0)        \* the field is not in the document
PyNone == Val("None", "", 0)
Str(s) == Val("str", s, 0)
IntVal(n) == Val("int", "", n)
\* The ObjectId the driver generates for the n-th document stored in
\* collection c: distinct for distinct (c, n).
ObjectId(c, n) == Val("oid", c \o ToString(n), 0)
\* str(ObjectId): the identifier as text, the form it has in a request.
StrOf(v) == IF v.t = "oid" THEN Str(v.s) ELSE v
\* Python truthiness of an Optional[str] parameter: None and "" are false.
Truthy(v) == v.t = "str" /\ v.s # ""

Collections == {"forms", "questions"}

Doc(id, name, title, description, author, form_id, index) ==
    [_id |-> id, name |-> name, title |-> title, description |-> description,
     author |-> author, form_id |-> form_id, index |-> index]
NoDoc == Doc(Missing, Missing, Missing, Missing, Missing, Missing, Missing)

\* A query is one equality condition {field: value}; field "" is the
\* empty query {}, which matches every document.
Query(f, v) == [field |-> f, value |-> v]
NoQuery == Query("", Missing)
Matches(d, q) == q.field = "" \/ d[q.field] = q.value

\* A cursor: what Collection.find returns before anything is fetched.
Cursor(c, q, key, dir, sess) ==
    [coll |-> c, q |-> q, key |-> key, dir |-> dir, session |-> sess]
NoCursor == Cursor("", NoQuery, "", "asc", "none")

\* pymongo.ASCENDING and pymongo.DESCENDING (1 and -1 in the driver).
ASCENDING == "asc"
DESCENDING == "desc"

\* Results and exceptions.
Blank ==
    [kind |-> "none", exc |-> "", doc |-> NoDoc, docs |-> <<>>, ids |-> <<>>,
     n |-> 0, name |-> "", cur |-> NoCursor]
NoneRes == Blank
Exc(e) == [Blank EXCEPT !.kind = "exc", !.exc = e]
DocRes(d) == [Blank EXCEPT !.kind = "doc", !.doc = d]
ListRes(ds) == [Blank EXCEPT !.kind = "list", !.docs = ds]
InsertAck(ids) == [Blank EXCEPT !.kind = "insert_ack", !.ids = ids]
CountAck(k, n) == [Blank EXCEPT !.kind = k, !.n = n]
CursorRes(c) == [Blank EXCEPT !.kind = "cursor", !.cur = c]
HandleRes(name) == [Blank EXCEPT !.kind = "collection", !.name = name]
MessageRes(m) == [Blank EXCEPT !.kind = "message", !.name = m]
FormRes(d, qs) == [Blank EXCEPT !.kind = "form", !.doc = d, !.docs = qs]
IsExc(r) == r.kind = "exc"

\* What an operation leaves behind: the working copy of the store, its
\* result, the driver events it caused and the ObjectIds it used up
\* (counted for the documents it stored: an identifier generated for a
\* document that is never stored is seen by nobody).
OpRes(st, res, ev, used) == [st |-> st, res |-> res, ev |-> ev, used |-> used]

----------------------------------------------------------------------------
(* The store's collection operations, run inside a session's transaction   *)
(* on the working copy s.                                                  *)

HasId(ds, id) == \E i \in 1 .. Len(ds) : ds[i]._id = id

\* The document as stored: the driver adds an ObjectId when _id is absent.
WithId(d, c, oid) ==
    IF d._id = Missing THEN [d EXCEPT !._id = ObjectId(c, oid)] ELSE d
NeedsId(d) == IF d._id = Missing THEN 1 ELSE 0

\* Collection.insert_one(data, session=session).  fault: the store fails
\* (connection loss, write conflict) while writing.
coll_insert_one(s, c, d, oid, fault) ==
    IF fault = 1
    THEN OpRes(s, Exc("StoreError"), <<"write">>, 0)
    ELSE IF HasId(s[c], WithId(d, c, oid)._id)
    THEN OpRes(s, Exc("DuplicateKeyError"), <<"write">>, 0)
    ELSE OpRes([s EXCEPT ![c] = Append(@, WithId(d, c, oid))],
               InsertAck(<<WithId(d, c, oid)._id>>), <<"write">>, NeedsId(d))

\* Collection.insert_many(data, session=session): an ordered bulk insert.
\* Documents are written one after the other; the first one the store
\* rejects (a duplicate _id, or the store failing at document `fault`)
\* raises and leaves the earlier ones written in the transaction.
RECURSIVE insert_each(_, _, _, _, _, _, _, _)
insert_each(s, c, ds, i, oid, fault, ids, ev) ==
    IF i > Len(ds)
    THEN OpRes(s, InsertAck(ids), ev, oid)
    ELSE IF fault = i
    THEN OpRes(s, Exc("StoreError"), Append(ev, "write"), 0)
    ELSE IF HasId(s[c], WithId(ds[i], c, oid)._id)
    THEN OpRes(s, Exc("BulkWriteError"), Append(ev, "write"), 0)
    ELSE insert_each([s EXCEPT ![c] = Append(@, WithId(ds[i], c, oid))], c, ds,
                     i + 1, oid + NeedsId(ds[i]), fault,
                     Append(ids, WithId(ds[i], c, oid)._id), Append(ev, "write"))

coll_insert_many(s, c, ds, oid, fault) ==
    IF ds = <<>>
    THEN OpRes(s, Exc("TypeError"), <<>>, 0)   \* "documents must be a non-empty list"
    ELSE LET r == insert_each(s, c, ds, 1, oid, fault, <<>>, <<>>)
         IN  [r EXCEPT !.used = IF IsExc(r.res) THEN 0 ELSE r.used - oid]

\* Index of the first document of ds matching q, 0 when there is none.
RECURSIVE FirstMatch(_, _, _)
FirstMatch(ds, q, i) ==
    IF i > Len(ds) THEN 0
    ELSE IF Matches(ds[i], q) THEN i
    ELSE FirstMatch(ds, q, i + 1)

\* Collection.find_one(query, session=session): the first match, or None.
coll_find_one(s, c, q) ==
    LET i == FirstMatch(s[c], q, 1)
    IN  OpRes(s, IF i = 0 THEN NoneRes ELSE DocRes(s[c][i]), <<"read">>, 0)

\* Collection.update_one(query, {"$set": {field: value}}, session=session).
coll_update_one(s, c, q, u) ==
    LET i == FirstMatch(s[c], q, 1)
    IN  IF i = 0
        THEN OpRes(s, CountAck("update_ack", 0), <<"write">>, 0)
        ELSE OpRes([s EXCEPT ![c][i][u.field] = u.value],
                   CountAck("update_ack", 1), <<"write">>, 0)

RemoveAt(ds, i) == SubSeq(ds, 1, i - 1) \o SubSeq(ds, i + 1, Len(ds))

\* Collection.delete_one(query, session=session).
coll_delete_one(s, c, q) ==
    LET i == FirstMatch(s[c], q, 1)
    IN  IF i = 0
        THEN OpRes(s, CountAck("delete_ack", 0), <<"write">>, 0)
        ELSE OpRes([s EXCEPT ![c] = RemoveAt(@, i)],
                   CountAck("delete_ack", 1), <<"write">>, 0)

----------------------------------------------------------------------------
(* Cursors.  Collection.find sends nothing to the store: the query runs    *)
(* when the cursor is first iterated, in the session the cursor was given. *)

coll_find(c, q, sess) == Cursor(c, q, "", ASCENDING, sess)

\* Cursor.sort(key, direction=ASCENDING)
cursor_sort(cur, key, dir) == [cur EXCEPT !.key = key, !.dir = dir]

\* The store orders a missing or non-numeric key before every number.
SortVal(d, key) == IF d[key].t = "int" THEN d[key].n ELSE -1

Before(a, b, key, dir) ==
    IF dir = ASCENDING THEN SortVal(a, key) < SortVal(b, key)
                       ELSE SortVal(a, key) > SortVal(b, key)

\* d placed in the sorted sequence ds, after the documents it does not precede.
RECURSIVE InsertSorted(_, _, _, _)
InsertSorted(ds, d, key, dir) ==
    IF ds = <<>> THEN <<d>>
    ELSE IF Before(d, Head(ds), key, dir) THEN <<d>> \o ds
    ELSE <<Head(ds)>> \o InsertSorted(Tail(ds), d, key, dir)

RECURSIVE SortBy(_, _, _)
SortBy(ds, key, dir) ==
    IF ds = <<>> THEN <<>>
    ELSE InsertSorted(SortBy(SubSeq(ds, 1, Len(ds) - 1), key, dir),
                      ds[Len(ds)], key, dir)

Select(ds, q) == SelectSeq(ds, LAMBDA d : Matches(d, q))

\* What the store answers to the cursor's query.
cursor_run(cur, s) ==
    IF cur.key = "" THEN Select(s[cur.coll], cur.q)
    ELSE SortBy(Select(s[cur.coll], cur.q), cur.key, cur.dir)

\* list(cursor): the first iteration sends the query in the cursor's
\* session; a session that has ended refuses it ("Cannot use ended session").
cursor_list(cur, s, ended) ==
    IF ended
    THEN [res |-> Exc("InvalidOperation"), ev |-> <<"cursor_fetch">>]
    ELSE [res |-> ListRes(cursor_run(cur, s)), ev |-> <<"cursor_fetch">>]

----------------------------------------------------------------------------
(* Database (db.py).                                                       *)

\* get_collection(name): self.db[name]; conn is the client's connection
\* state ("idle": constructed, nothing sent yet; "connected").
get_collection_Checked(name, c) ==
    IF c = "idle" THEN Exc("ConfigurationError") ELSE HandleRes(name)
get_collection(name, c) == HandleRes(name)

\* Leaving `with session.start_transaction():` - the transaction commits
\* when the block ends normally and aborts when it ends by an exception.
TxnExit_NoAbort(r, s) == r.st
TxnExit(r, s) == IF IsExc(r.res) THEN s ELSE r.st

TxnExitEvent(r) ==
    IF IsExc(r.res) THEN "abort_transaction" ELSE "commit_transaction"

\* execute_with_session(operations), r being what operations(session) did
\* on the working copy of s.  The record keeps the call's history: the
\* store before (pre) and after (st), the operation's own outcome
\* (opres, opst) and the ordered driver events.
execute_with_session(r, s) ==
    [st |-> TxnExit(r, s),
     res |-> r.res,
     ev |-> <<"start_session", "start_transaction">> \o r.ev
            \o <<TxnExitEvent(r), "end_session">>,
     used |-> r.used, pre |-> s, opst |-> r.st, opres |-> r.res,
     session |-> "ended"]

\* What a method or handler did: the store it leaves, its result, the
\* execute_with_session calls it made, all driver events in order, and the
\* ObjectIds used up.
Done(st, res, calls, ev, used) ==
    [st |-> st, res |-> res, calls |-> calls, ev |-> ev, used |-> used]
OneCall(e) == Done(e.st, e.res, <<e>>, e.ev, e.used)

insert_one(s, c, d, oid, fault) ==
    OneCall(execute_with_session(coll_insert_one(s, c, d, oid, fault), s))

find_one(s, c, q) == OneCall(execute_with_session(coll_find_one(s, c, q), s))

update_one(s, c, q, u) ==
    OneCall(execute_with_session(coll_update_one(s, c, q, u), s))

delete_one(s, c, q) ==
    OneCall(execute_with_session(coll_delete_one(s, c, q), s))

insert_many_NoTransaction(s, c, ds, oid, fault) ==
    LET r == coll_insert_many(s, c, ds, oid, fault)
    IN  Done(r.st, r.res, <<>>, r.ev, r.used)
insert_many(s, c, ds, oid, fault) ==
    OneCall(execute_with_session(coll_insert_many(s, c, ds, oid, fault), s))

\* find_operation(session): builds the cursor and returns it; `order` is
\* not passed to sort.
find_operation(s, c, q, sort_key, order) ==
    LET cursor == coll_find(c, q, "session")
    IN  OpRes(s,
              CursorRes(IF sort_key # "" THEN cursor_sort(cursor, sort_key, ASCENDING)
                                         ELSE cursor),
              <<>>, 0)

\* find: list(self.execute_with_session(find_operation)) - the cursor is
\* iterated after execute_with_session has returned.
find(s, c, q, sort_key, order) ==
    LET e == execute_with_session(find_operation(s, c, q, sort_key, order), s)
        l == cursor_list(e.res.cur, e.st, e.session = "ended")
    IN  IF IsExc(e.res) THEN OneCall(e)
        ELSE Done(e.st, l.res, <<e>>, e.ev \o l.ev, e.used)

----------------------------------------------------------------------------
(* Handlers (app.py), with `db` a constructed Database.                    *)

\* pydantic models: the declared fields, model_dump, and attribute
\* assignment, which refuses a name that is not a declared field.
FormInternalFields == {"title", "description", "author"}
FormInternal(title, description, author) ==
    [title |-> title, description |-> description, author |-> author]
QuestionInternal(index) == [index |-> index]

model_setattr(fields, name) ==
    IF name \in fields THEN NoneRes ELSE Exc("ValueError")

form_model_dump(fd) ==
    Doc(Missing, Missing, Str(fd.title), Str(fd.description), Str(fd.author),
        Missing, Missing)

question_model_dump(qd, form_id) ==
    Doc(Missing, Missing, Missing, Missing, Missing, form_id, IntVal(qd.index))

\* `if not id and not name`
MissingParams_Never(id, name) == FALSE
MissingParams(id, name) == ~Truthy(id) /\ ~Truthy(name)

\* The two store calls of a lookup, one after the other.
Both(a, b, res) == Done(b.st, res, a.calls \o b.calls, a.ev \o b.ev, a.used + b.used)

\* form(id, name), the `if id:` branch.
form_by_id(s, id) ==
    LET f == find_one(s, "forms", Query("_id", id))
        qs == find(f.st, "questions", Query("form_id", id), "index", ASCENDING)
    IN  IF IsExc(f.res) THEN f
        ELSE IF IsExc(qs.res) THEN Both(f, qs, qs.res)
        ELSE IF f.res.kind = "none"
        THEN Both(f, qs, Exc("TypeError"))      \* None["questions"] = questions
        ELSE Both(f, qs, FormRes(f.res.doc, qs.res.docs))

\* form(id, name), the `elif name:` branch.
form_by_name(s, name) ==
    LET f == find_one(s, "forms", Query("name", name))
    IN  IF IsExc(f.res) THEN f
        ELSE IF f.res.kind = "none"
        THEN [f EXCEPT !.res = Exc("TypeError")]   \* None["_id"]
        ELSE LET qs == find(f.st, "questions", Query("form_id", f.res.doc._id),
                            "index", ASCENDING)
             IN  IF IsExc(qs.res) THEN Both(f, qs, qs.res)
                 ELSE Both(f, qs, FormRes(f.res.doc, qs.res.docs))

form(s, id, name) ==
    IF MissingParams(id, name)
    THEN Done(s, Exc("ValueError"), <<>>, <<>>, 0)
    ELSE IF Truthy(id) THEN form_by_id(s, id)
    ELSE IF Truthy(name) THEN form_by_name(s, name)
    ELSE Done(s, Exc("UnboundLocalError"), <<>>, <<>>, 0)   \* return form

\* create_form(form_data): `form_data.id = None`, then insert_one; the
\* handler returns insert_one's acknowledgment.
create_form(s, fd, oid, fault) ==
    IF IsExc(model_setattr(FormInternalFields, "id"))
    THEN Done(s, model_setattr(FormInternalFields, "id"), <<>>, <<>>, 0)
    ELSE insert_one(s, "forms", form_model_dump(fd), oid, fault)

\* create_question(form_id, question_data)
create_question(s, form_id, qd, oid, fault) ==
    LET data == [i \in 1 .. Len(qd) |-> question_model_dump(qd[i], form_id)]
        r == insert_many(s, "questions", data, oid, fault)
    IN  IF IsExc(r.res) THEN r
        ELSE [r EXCEPT !.res = MessageRes("Questions created successfully.")]

\* Module level of app.py: `app = FastAPI(lifespan=lifespan)` creates the
\* application object, on which nothing has set `db` yet; `db = app.db`
\* reads the attribute.  lifespan runs when the server starts the imported
\* application.
getattr(value) == IF value = "unset" THEN "AttributeError" ELSE value

module_import(m) ==
    LET got == getattr(m.app_db)
    IN  IF got = "AttributeError"
        THEN [m EXCEPT !.pc = "import_failed"]
        ELSE [m EXCEPT !.pc = "imported", !.db = got]

----------------------------------------------------------------------------
(* Inputs.                                                                 *)

Batches(S) == UNION {[1 .. n -> S] : n \in 0 .. MaxBatch}

FormDocs ==
    {Doc(id, name, Str("T1"), Str("D"), Str("A"), Missing, Missing) :
        id \in {Missing, Str("f1")}, name \in {Str("n1")}}
    \cup {form_model_dump(FormInternal("T1", "D", "A"))}

QuestionDocs ==
    {Doc(Missing, Missing, Missing, Missing, Missing, Str("f1"), IntVal(i)) :
        i \in Indexes}
    \cup {Doc(Str("q1"), Missing, Missing, Missing, Missing, Str("f1"), IntVal(0))}

FormInputs == {FormInternal(t, "D", "A") : t \in {"T1", "T2"}}
QuestionInputs == {QuestionInternal(i) : i \in Indexes}

FormQueries == {Query("_id", Str("f1")), Query("_id", ObjectId("forms", 1)),
                Query("name", Str("n1"))}
QuestionQueries == {NoQuery, Query("form_id", Str("f1"))}

IdParams == {PyNone, Str(""), Str("f1"), StrOf(ObjectId("forms", 1))}
NameParams == {PyNone, Str(""), Str("n1")}
FormIdParams == {Str("f1")}

----------------------------------------------------------------------------
(* State machine.  One request is served at a time: a method or handler   *)
(* runs as one action and leaves its record in `last`; Respond hands the   *)
(* result to the caller.  The Database's methods and the handlers' bodies  *)
(* run against the Database of Init; what the module itself binds to `db`  *)
(* is ModuleImport's step, kept in `module`.                               *)

\* The record of a call in `last`.
NoArgs ==
    [coll |-> "", q |-> NoQuery, id |-> PyNone, name |-> PyNone, batch |-> <<>>,
     key |-> "", order |-> ASCENDING, fd |-> FormInternal("", "", "")]
Call(op, args, d) ==
    [op |-> op, args |-> args, pre |-> store, conn |-> conn,
     res |-> d.res, calls |-> d.calls, ev |-> d.ev]

\* The state d leaves.
Leaves(d, c) ==
    /\ store' = d.st
    /\ nextOid' = [nextOid EXCEPT ![c] = @ + d.used]
    /\ conn' = IF d.calls # <<>> THEN "connected" ELSE conn
    /\ UNCHANGED module

\* No request is being served, and the bounded store has room for n more.
Idle == last.op = "none"
Room(c, n) == Len(store[c]) + n <= MaxDocs

Init ==
    /\ store = [c \in Collections |-> <<>>]
    /\ nextOid = [c \in Collections |-> 1]
    /\ conn = "idle"
    /\ module = [pc |-> "loading", app_db |-> "unset", db |-> "unbound"]
    /\ last = [op |-> "none", args |-> NoArgs, pre |-> [c \in Collections |-> <<>>],
               conn |-> "idle", res |-> NoneRes, calls |-> <<>>, ev |-> <<>>]

ModuleImport ==
    /\ module.pc = "loading"
    /\ module' = module_import(module)
    /\ UNCHANGED <<store, nextOid, conn, last>>

GetCollection ==
    \E name \in Collections :
        /\ Idle
        /\ last' = Call("get_collection", [NoArgs EXCEPT !.coll = name],
                        Done(store, get_collection(name, conn), <<>>, <<>>, 0))
        /\ UNCHANGED <<store, nextOid, conn, module>>

InsertOne ==
    \E d \in FormDocs, fault \in 0 .. 1 :
        LET r == insert_one(store, "forms", d, nextOid["forms"], fault)
        IN  /\ Idle
            /\ Room("forms", 1)
            /\ Leaves(r, "forms")
            /\ last' = Call("insert_one",
                            [NoArgs EXCEPT !.coll = "forms", !.batch = <<d>>], r)

InsertMany ==
    \E ds \in Batches(QuestionDocs) :
        LET r == insert_many(store, "questions", ds, nextOid["questions"], 0)
        IN  /\ Idle
            /\ Room("questions", Len(ds))
            /\ Leaves(r, "questions")
            /\ last' = Call("insert_many",
                            [NoArgs EXCEPT !.coll = "questions", !.batch = ds], r)

FindOne ==
    \E q \in FormQueries :
        LET r == find_one(store, "forms", q)
        IN  /\ Idle
            /\ Leaves(r, "forms")
            /\ last' = Call("find_one", [NoArgs EXCEPT !.coll = "forms", !.q = q], r)

Find ==
    \E q \in QuestionQueries, key \in {"", "index"}, order \in {ASCENDING, DESCENDING} :
        LET r == find(store, "questions", q, key, order)
        IN  /\ Idle
            /\ Leaves(r, "questions")
            /\ last' = Call("find", [NoArgs EXCEPT !.coll = "questions", !.q = q,
                                                   !.key = key, !.order = order], r)

UpdateOne ==
    \E q \in {Query("_id", Str("f1"))} :
        LET r == update_one(store, "forms", q, Query("title", Str("T2")))
        IN  /\ Idle
            /\ Leaves(r, "forms")
            /\ last' = Call("update_one", [NoArgs EXCEPT !.coll = "forms", !.q = q], r)

DeleteOne ==
    \E c \in Collections :
        LET q == Query("_id", IF c = "forms" THEN Str("f1") ELSE Str("q1"))
            r == delete_one(store, c, q)
        IN  /\ Idle
            /\ Leaves(r, c)
            /\ last' = Call("delete_one", [NoArgs EXCEPT !.coll = c, !.q = q], r)

FormLookup ==
    \E id \in IdParams, name \in NameParams :
        LET r == form(store, id, name)
        IN  /\ Idle
            /\ Leaves(r, "forms")
            /\ last' = Call("form", [NoArgs EXCEPT !.id = id, !.name = name], r)

CreateForm ==
    \E fd \in FormInputs :
        LET r == create_form(store, fd, nextOid["forms"], 0)
        IN  /\ Idle
            /\ Room("forms", 1)
            /\ Leaves(r, "forms")
            /\ last' = Call("create_form", [NoArgs EXCEPT !.fd = fd], r)

CreateQuestion ==
    \E form_id \in FormIdParams, qd \in Batches(QuestionInputs),
       fault \in 0 .. MaxBatch :
        LET r == create_question(store, form_id, qd, nextOid["questions"], fault)
        IN  /\ Idle
            /\ Room("questions", Len(qd))
            /\ fault <= Len(qd)
            /\ Leaves(r, "questions")
            /\ last' = Call("create_question",
                            [NoArgs EXCEPT !.id = form_id, !.batch = qd], r)

\* The response is handed to the caller; the request's record is dropped.
Respond ==
    /\ ~Idle
    /\ last' = [op |-> "none", args |-> NoArgs, pre |-> [c \in Collections |-> <<>>],
                conn |-> "idle", res |-> NoneRes, calls |-> <<>>, ev |-> <<>>]
    /\ UNCHANGED <<store, nextOid, conn, module>>

Next ==
    \/ Respond
    \/ ModuleImport
    \/ GetCollection
    \/ InsertOne
    \/ InsertMany
    \/ FindOne
    \/ Find
    \/ UpdateOne
    \/ DeleteOne
    \/ FormLookup
    \/ CreateForm
    \/ CreateQuestion

Spec == Init /\ [][Next]_vars

----------------------------------------------------------------------------
(* Properties.                                                             *)

Serving(op) == last.op = op
LastCall == last.calls[Len(last.calls)]
IsAccess(e) == e \in {"read", "write", "cursor_fetch"}
FormStored(f, v) == \E i \in 1 .. Len(store["forms"]) : store["forms"][i][f] = v

\* A stored document is the given one, the store having added the _id
\* when the given one had none.
StoredAs(stored, given) ==
    IF given._id = Missing
    THEN stored._id.t = "oid" /\ [stored EXCEPT !._id = Missing] = given
    ELSE stored = given

\* The documents a batch call was asked to insert.
BatchDocs ==
    IF Serving("create_question")
    THEN [i \in 1 .. Len(last.args.batch) |->
              question_model_dump(last.args.batch[i], last.args.id)]
    ELSE last.args.batch

\* C1: every execute_with_session call opens a session and a transaction;
\* when the operation returns, the transaction commits before the session
\* ends, the operation's writes are the store's and its result is
\* returned; when it raises, the transaction aborts, the store is what it
\* was before the call and the same exception comes out; the session ends
\* last on both paths.
C1_ExecuteWithSessionCommitsOrAborts ==
    /\ \A i \in 1 .. Len(last.calls) :
        LET e == last.calls[i]
            n == Len(e.ev)
        IN  /\ n >= 4
            /\ e.ev[1] = "start_session"
            /\ e.ev[2] = "start_transaction"
            /\ e.ev[n] = "end_session"
            /\ \A k \in 1 .. (n - 1) : e.ev[k] # "end_session"
            /\ e.res = e.opres
            /\ IF IsExc(e.opres)
               THEN e.ev[n - 1] = "abort_transaction" /\ e.st = e.pre
               ELSE e.ev[n - 1] = "commit_transaction" /\ e.st = e.opst
    /\ last.calls # <<>> => store = LastCall.st

\* C1 witness: an operation wrote inside its transaction and then raised;
\* the store is as before the call.
C1_Witness_AbortDiscardsWrites ==
    /\ Serving("insert_many")
    /\ Len(last.calls) = 1
    /\ IsExc(LastCall.opres)
    /\ LastCall.opst # LastCall.pre
    /\ store = LastCall.pre
    /\ last.res = LastCall.opres

\* C2: after insert_many, and after create_question's batch, the
\* collection holds what it held before followed by every document of the
\* batch in order (the call succeeded), or exactly what it held before
\* (the call failed).
C2_InsertManyAllOrNothing ==
    (Serving("insert_many") \/ Serving("create_question")) =>
        LET pre == last.pre["questions"]
            post == store["questions"]
            n == Len(BatchDocs)
        IN  \/ /\ ~IsExc(last.res)
               /\ Len(post) = Len(pre) + n
               /\ SubSeq(post, 1, Len(pre)) = pre
               /\ \A i \in 1 .. n : StoredAs(post[Len(pre) + i], BatchDocs[i])
            \/ /\ IsExc(last.res)
               /\ post = pre

\* C2 witness: create_question's batch failed at its second document,
\* after the first had been written in the transaction; nothing of the
\* batch is in the collection.
C2_Witness_BatchFailedAfterFirstWrite ==
    /\ Serving("create_question")
    /\ Len(last.args.batch) = 2
    /\ IsExc(last.res)
    /\ Len(LastCall.opst["questions"]) = Len(last.pre["questions"]) + 1
    /\ store = last.pre

\* C3 (as claimed): a lookup of a stored Form by its identifier returns the
\* Form with its questions, each index strictly greater than the one
\* before.
C3_LookupQuestionsStrictlyAscending ==
    (Serving("form") /\ Truthy(last.args.id) /\ FormStored("_id", last.args.id)) =>
        /\ last.res.kind = "form"
        /\ \A i \in 1 .. (Len(last.res.docs) - 1) :
               last.res.docs[i].index.n < last.res.docs[i + 1].index.n

\* C4: a lookup with neither an identifier nor a name raises the
\* validation error, makes no execute_with_session call, causes no driver
\* event and leaves the store as it was.
C4_LookupWithoutParamsIssuesNoStoreCall ==
    (Serving("form") /\ ~Truthy(last.args.id) /\ ~Truthy(last.args.name)) =>
        /\ last.res = Exc("ValueError")
        /\ last.calls = <<>>
        /\ last.ev = <<>>
        /\ store = last.pre
        /\ conn = last.conn

\* C4 witness: the lookup was called with id = None and name = None and
\* raised the validation error.
C4_Witness_LookupWithoutParams ==
    /\ Serving("form")
    /\ last.args.id = PyNone
    /\ last.args.name = PyNone
    /\ last.res.exc = "ValueError"

\* C5 (as claimed): a lookup by an identifier, or by a name, that no Form
\* has reports not-found; it raises no other error and returns no document.
C5_LookupOfAbsentFormReportsNotFound ==
    (/\ Serving("form")
     /\ \/ Truthy(last.args.id) /\ ~FormStored("_id", last.args.id)
        \/ ~Truthy(last.args.id) /\ Truthy(last.args.name)
           /\ ~FormStored("name", last.args.name)) =>
        \/ last.res = NoneRes
        \/ last.res = Exc("NotFoundError")

\* C6 (as claimed): form creation returns the identifier the store assigned
\* to the persisted Form, and a lookup by that identifier returns a
\* document equal to the input on title, description and author.
C6_CreateFormRoundTrip ==
    Serving("create_form") =>
        /\ last.res.kind = "insert_ack"
        /\ Len(last.res.ids) = 1
        /\ LET back == form(store, StrOf(last.res.ids[1]), PyNone).res
           IN  /\ back.kind = "form"
               /\ back.doc.title = Str(last.args.fd.title)
               /\ back.doc.description = Str(last.args.fd.description)
               /\ back.doc.author = Str(last.args.fd.author)

\* C7 (as claimed): find returns exactly the documents matching the query,
\* sorted by sort_key in the requested order when a sort_key is given.
C7_FindReturnsMatchesInRequestedOrder ==
    Serving("find") =>
        /\ last.res.kind = "list"
        /\ last.res.docs =
               IF last.args.key = ""
               THEN Select(last.pre[last.args.coll], last.args.q)
               ELSE SortBy(Select(last.pre[last.args.coll], last.args.q),
                           last.args.key, last.args.order)

\* C8 (as claimed): get_collection fails with ConfigurationError when no
\* connection has been established, and returns the handle otherwise.
C8_GetCollectionFailsWithoutConnection ==
    Serving("get_collection") =>
        last.res = IF last.conn = "idle" THEN Exc("ConfigurationError")
                                         ELSE HandleRes(last.args.coll)

\* C8 (amended): get_collection returns the handle of the collection with
\* the given name whether or not a connection has been established; it
\* never fails with ConfigurationError and touches neither store nor
\* connection.
C8_GetCollectionAlwaysReturnsHandle ==
    Serving("get_collection") =>
        /\ last.res = HandleRes(last.args.coll)
        /\ last.calls = <<>>
        /\ store = last.pre
        /\ conn = last.conn

\* C8 witness: get_collection was called on a Database whose client has
\* not connected yet.
C8_Witness_GetCollectionBeforeConnection ==
    /\ Serving("get_collection")
    /\ last.conn = "idle"
    /\ conn = "idle"
    /\ last.res.kind = "collection"

\* C9 (as claimed): once the module has bound the handlers' `db`, the
\* connection has been established and `db` is the Database.
C9_ConnectionEstablishedBeforeBinding ==
    module.pc # "loading" =>
        /\ module.pc = "imported"
        /\ module.app_db = "Database"
        /\ module.db = "Database"

\* C10 (as claimed): every store access of a call happens while a
\* transaction is open, and find has fetched its result list inside its
\* transaction.
C10_StoreAccessInsideOpenTransaction ==
    /\ \A k \in 1 .. Len(last.ev) :
        IsAccess(last.ev[k]) =>
            \E j \in 1 .. (k - 1) :
                /\ last.ev[j] = "start_transaction"
                /\ \A m \in (j + 1) .. (k - 1) : IsAccess(last.ev[m])
    /\ Serving("find") => last.res.kind = "list"

====
